---------------------------- MODULE Spec2Model ----------------------------
(***************************************************************************)
(* A model of src/json-validator.tsx: the metadata checker (validateJson   *)
(* over the component state jsonInput, promptCount, errors, isValid) and   *)
(* the zod schema metadataSchema it applies to the parsed document.        *)
(*                                                                         *)
(* JavaScript values are tagged records: a string is a TLA+ string, a      *)
(* number is an integer part plus a "half" flag (so 2.5 is n = 2, half),   *)
(* an object is a function from its keys, an array a sequence.  The raw    *)
(* JSON text is a sequence of lexical tokens which JsonParse parses.       *)
(***************************************************************************)
EXTENDS Integers, Sequences, FiniteSets, TLC

VARIABLES jsonInput, promptCount, errors, isValid, data, caught, earlier,
          form, generatedJson

vars ==
  <<jsonInput, promptCount, errors, isValid, data, caught, earlier, form,
    generatedJson>>

----------------------------------------------------------------------------
(* JavaScript values *)

Undefined == [t |-> "undefined"]
Null == [t |-> "null"]
NaN == [t |-> "nan"]
Bool(b) == [t |-> "bool", b |-> b]
Num(n) == [t |-> "num", n |-> n, half |-> FALSE]
NumHalf(n) == [t |-> "num", n |-> n, half |-> TRUE]
Str(s) == [t |-> "str", s |-> s]
Arr(a) == [t |-> "arr", a |-> a]
Obj(o) == [t |-> "obj", o |-> o]

\* data.key : reading a property of a value that is not null or undefined.
\* Only objects carry the keys the validator reads.
Get(v, key) ==
  IF v.t = "obj" /\ key \in DOMAIN v.o THEN v.o[key] ELSE Undefined

\* Reading a property of null or undefined throws a TypeError.
Throws(v) == v.t \in {"null", "undefined"}

\* !v is false
Truthy(v) ==
  CASE v.t \in {"undefined", "null", "nan"} -> FALSE
    [] v.t = "bool" -> v.b
    [] v.t = "num" -> v.n # 0 \/ v.half
    [] v.t = "str" -> v.s # ""
    [] OTHER -> TRUE

\* a === b : objects and arrays are compared by reference, and two values
\* read from different places of a parsed document are different references.
StrictEq(a, b) ==
  /\ a.t = b.t
  /\ CASE a.t = "bool" -> a.b = b.b
       [] a.t = "num" -> a.n = b.n /\ a.half = b.half
       [] a.t = "str" -> a.s = b.s
       [] a.t \in {"undefined", "null"} -> TRUE
       [] OTHER -> FALSE

----------------------------------------------------------------------------
(* JSON text: tokens, JSON.stringify, JSON.parse *)

Tok(k) == [k |-> k]
StrTok(s) == [k |-> "str", s |-> s]
NumTok(n, half) == [k |-> "num", n |-> n, half |-> half]

\* The order in which object keys are written out.
KeyOrder ==
  << "uuid", "jira_id", "programming_language", "model", "root_gdrive",
     "workflow", "codebase", "url", "description", "prompts", "hfi_id",
     "prompt", "choice", "gdrive", "usecase", "comment", "issue_type",
     "issue_comment", "issue_source", "level_of_correctness",
     "level_of_correctness_comment", "memory", "memory_comment",
     "memory_naturality", "context_accuracy", "code_referencing",
     "remembers_debugging_history", "maintains_coding_style",
     "remembers_environment", "avoids_referencing_irrelevant_memory",
     "avoids_storing_irrelevant_memory" >>

RECURSIVE Stringify(_)
RECURSIVE StringifyElems(_, _)
RECURSIVE StringifyMembers(_, _, _)

\* The elements of array a from position i on, comma separated; an
\* undefined element is written null.
StringifyElems(a, i) ==
  IF i > Len(a) THEN << >>
  ELSE (IF i > 1 THEN <<Tok(",")>> ELSE << >>)
       \o (IF a[i].t \in {"undefined", "nan"} THEN <<Tok("null")>>
           ELSE Stringify(a[i]))
       \o StringifyElems(a, i + 1)

\* The members of object o for the keys listed; a key whose value is
\* undefined is left out.  first: no member has been written yet.
StringifyMembers(o, keys, first) ==
  IF keys = << >> THEN << >>
  ELSE IF Head(keys) \notin DOMAIN o \/ o[Head(keys)].t = "undefined"
  THEN StringifyMembers(o, Tail(keys), first)
  ELSE (IF first THEN << >> ELSE <<Tok(",")>>)
       \o <<StrTok(Head(keys)), Tok(":")>>
       \o (IF o[Head(keys)].t = "nan" THEN <<Tok("null")>> ELSE Stringify(o[Head(keys)]))
       \o StringifyMembers(o, Tail(keys), FALSE)

Stringify(v) ==
  CASE v.t = "null" -> <<Tok("null")>>
    [] v.t = "nan" -> <<Tok("null")>>
    [] v.t = "bool" -> <<Tok(IF v.b THEN "true" ELSE "false")>>
    [] v.t = "num" -> <<NumTok(v.n, v.half)>>
    [] v.t = "str" -> <<StrTok(v.s)>>
    [] v.t = "arr" -> <<Tok("[")>> \o StringifyElems(v.a, 1) \o <<Tok("]")>>
    [] v.t = "obj" -> <<Tok("{")>> \o StringifyMembers(v.o, KeyOrder, TRUE) \o <<Tok("}")>>

SyntaxError == [ok |-> FALSE]
Parsed(v, pos) == [ok |-> TRUE, val |-> v, pos |-> pos]

\* o with key set to v (a repeated key keeps its last value)
Put(o, key, v) ==
  [x \in DOMAIN o \cup {key} |-> IF x = key THEN v ELSE o[x]]

RECURSIVE ParseValue(_, _)
RECURSIVE ParseElems(_, _, _)
RECURSIVE ParseMembers(_, _, _, _)

\* The elements after "[" or ",": a value r, then "," or "]".
ParseElems(toks, r, acc) ==
  IF ~r.ok \/ r.pos > Len(toks) THEN SyntaxError
  ELSE IF toks[r.pos].k = "]" THEN Parsed(Arr(Append(acc, r.val)), r.pos + 1)
  ELSE IF toks[r.pos].k = ","
  THEN ParseElems(toks, ParseValue(toks, r.pos + 1), Append(acc, r.val))
  ELSE SyntaxError

\* The members after "{" or ",": at i a string key and ":", then a value r,
\* then "," or "}".
ParseMembers(toks, i, r, acc) ==
  IF i + 1 > Len(toks) \/ toks[i].k # "str" \/ toks[i + 1].k # ":" THEN SyntaxError
  ELSE IF ~r.ok \/ r.pos > Len(toks) THEN SyntaxError
  ELSE IF toks[r.pos].k = "}" THEN Parsed(Obj(Put(acc, toks[i].s, r.val)), r.pos + 1)
  ELSE IF toks[r.pos].k = ","
  THEN ParseMembers(toks, r.pos + 1, ParseValue(toks, r.pos + 3),
                    Put(acc, toks[i].s, r.val))
  ELSE SyntaxError

\* The value that starts at token i
ParseValue(toks, i) ==
  IF i > Len(toks) THEN SyntaxError
  ELSE CASE toks[i].k = "null" -> Parsed(Null, i + 1)
         [] toks[i].k = "true" -> Parsed(Bool(TRUE), i + 1)
         [] toks[i].k = "false" -> Parsed(Bool(FALSE), i + 1)
         [] toks[i].k = "num" ->
              Parsed([t |-> "num", n |-> toks[i].n, half |-> toks[i].half], i + 1)
         [] toks[i].k = "str" -> Parsed(Str(toks[i].s), i + 1)
         [] toks[i].k = "[" ->
              IF i + 1 <= Len(toks) /\ toks[i + 1].k = "]"
              THEN Parsed(Arr(<< >>), i + 2)
              ELSE ParseElems(toks, ParseValue(toks, i + 1), << >>)
         [] toks[i].k = "{" ->
              IF i + 1 <= Len(toks) /\ toks[i + 1].k = "}"
              THEN Parsed(Obj(<< >>), i + 2)
              ELSE ParseMembers(toks, i + 1, ParseValue(toks, i + 3), << >>)
         [] OTHER -> SyntaxError

\* The whole text must be the one value r
\* A parser that stops at the end of the first value and ignores the rest
FirstValue(toks, r) ==
  IF r.ok THEN [ok |-> TRUE, val |-> r.val] ELSE SyntaxError

WholeText(toks, r) ==
  IF r.ok /\ r.pos = Len(toks) + 1 THEN [ok |-> TRUE, val |-> r.val]
  ELSE SyntaxError

\* JSON.parse(text): the value, or a SyntaxError when the text is not one
\* complete JSON value.
JsonParse(toks) == WholeText(toks, ParseValue(toks, 1))

----------------------------------------------------------------------------
(* Strings *)

Whitespace == {" ", "\t", "\n"}
Letters ==
  {"a", "b", "c", "d", "e", "f", "g", "h", "i", "j", "k", "l", "m", "n", "o",
   "p", "q", "r", "s", "t", "u", "v", "w", "x", "y", "z",
   "A", "B", "C", "D", "E", "F", "G", "H", "I", "J", "K", "L", "M", "N", "O",
   "P", "Q", "R", "S", "T", "U", "V", "W", "X", "Y", "Z"}
Digits == {"0", "1", "2", "3", "4", "5", "6", "7", "8", "9"}

CharAt(s, i) == SubSeq(s, i, i)

\* s.startsWith(p)
StartsWith(s, p) == Len(s) >= Len(p) /\ SubSeq(s, 1, Len(p)) = p

RECURSIVE TrimStart(_)
TrimStart(s) ==
  IF Len(s) > 0 /\ CharAt(s, 1) \in Whitespace
  THEN TrimStart(SubSeq(s, 2, Len(s))) ELSE s

RECURSIVE TrimEnd(_)
TrimEnd(s) ==
  IF Len(s) > 0 /\ CharAt(s, Len(s)) \in Whitespace
  THEN TrimEnd(SubSeq(s, 1, Len(s) - 1)) ELSE s

\* s.trim()
Trim(s) == TrimEnd(TrimStart(s))

\* The position of the first ch in s at or after i, or 0.
RECURSIVE IndexOf(_, _, _)
IndexOf(s, ch, i) ==
  IF i > Len(s) THEN 0
  ELSE IF CharAt(s, i) = ch THEN i
  ELSE IndexOf(s, ch, i + 1)

\* The first position at or after i of s that holds none of chars.
RECURSIVE SkipChars(_, _, _)
SkipChars(s, chars, i) ==
  IF i <= Len(s) /\ CharAt(s, i) \in chars THEN SkipChars(s, chars, i + 1) ELSE i

SpecialSchemes == {"http", "https", "ftp", "ws", "wss"}

\* new URL(s) does not throw: after trimming, a scheme (a letter, then
\* letters, digits, "+", "-", "."), a ":", and for the special schemes a
\* non-empty host after any slashes.
\* u has a host at position hostAt
HasHost(u, hostAt) == hostAt <= Len(u) /\ CharAt(u, hostAt) \notin {"?", "#", ":", "@"}

\* u, with its first ":" at position colon, is a URL
IsUrlWithColon(u, colon) ==
  /\ colon > 1
  /\ CharAt(u, 1) \in Letters
  /\ SkipChars(u, Letters \cup Digits \cup {"+", "-", "."}, 1) = colon
  /\ SubSeq(u, 1, colon - 1) \in SpecialSchemes =>
       HasHost(u, SkipChars(u, {"/", "\\"}, colon + 1))

IsTrimmedUrl(u) == IsUrlWithColon(u, IndexOf(u, ":", 1))

IsUrl(s) == IsTrimmedUrl(Trim(s))

\* path.join(".")
RECURSIVE Join(_)
Join(path) ==
  IF path = << >> THEN ""
  ELSE IF Len(path) = 1 THEN path[1]
  ELSE path[1] \o "." \o Join(Tail(path))

----------------------------------------------------------------------------
(* zod: each schema parses a value at a path into a status and the issues *)
(* it raised.  An "aborted" result is zod's INVALID; a "dirty" one raised *)
(* issues but still produced a value.                                     *)

Issue(path, message) == [path |-> path, message |-> message]
Result(status, issues) == [status |-> status, issues |-> issues]
Valid == Result("valid", << >>)
Aborted(path, message) == Result("aborted", <<Issue(path, message)>>)

\* zod's name for the type of a value
TypeName(v) ==
  CASE v.t = "bool" -> "boolean"
    [] v.t = "num" -> "number"
    [] v.t = "str" -> "string"
    [] v.t = "arr" -> "array"
    [] v.t = "obj" -> "object"
    [] OTHER -> v.t

\* invalid_type: a missing value is "Required"
InvalidType(v, path, expected) ==
  Aborted(path, IF v.t = "undefined" THEN "Required"
                ELSE "Expected " \o expected \o ", received " \o TypeName(v))

\* ParseStatus.mergeObjectSync / mergeArray: all issues are kept; one
\* aborted part aborts the whole, one dirty part dirties it.
RECURSIVE IssuesOf(_, _)
IssuesOf(results, i) ==
  IF i > Len(results) THEN << >>
  ELSE results[i].issues \o IssuesOf(results, i + 1)

\* A parse of an object that stops at the first key that fails
FirstFailure(results) ==
  IF \A i \in DOMAIN results : results[i].status = "valid" THEN Result("valid", << >>)
  ELSE results[CHOOSE i \in DOMAIN results :
                 /\ results[i].status # "valid"
                 /\ \A j \in 1..(i - 1) : results[j].status = "valid"]

Merge(results) ==
  Result(IF \E i \in DOMAIN results : results[i].status = "aborted" THEN "aborted"
         ELSE IF \E i \in DOMAIN results : results[i].status = "dirty" THEN "dirty"
         ELSE "valid",
         IssuesOf(results, 1))

MinCheck(message) == [kind |-> "min", arg |-> "", message |-> message]
StartsWithCheck(prefix, message) == [kind |-> "startsWith", arg |-> prefix, message |-> message]
UrlCheck(message) == [kind |-> "url", arg |-> "", message |-> message]

\* One check of a string: .min(1, message), .startsWith(prefix, message),
\* .url(message)
CheckFails(s, check) ==
  CASE check.kind = "min" -> Len(s) < 1
    [] check.kind = "startsWith" -> ~StartsWith(s, check.arg)
    [] check.kind = "url" -> ~IsUrl(s)

\* z.string() with its checks: a non-string aborts; every failing check
\* raises its issue and the result is dirty.
\* The issues of the checks that failed
Dirty(path, failed) ==
  Result(IF failed = << >> THEN "valid" ELSE "dirty",
         [i \in DOMAIN failed |-> Issue(path, failed[i].message)])

ZString(v, path, checks) ==
  IF v.t # "str" THEN InvalidType(v, path, "string")
  ELSE Dirty(path, SelectSeq(checks, LAMBDA c : CheckFails(v.s, c)))

\* a <= b on numbers with a half flag; b is a whole number
NumLeqInt(a, b) == a.n < b \/ (a.n = b /\ ~a.half)
NumGeqInt(a, b) == a.n >= b

\* z.number().min(lo).max(hi)
ZNumber(v, path, lo, hi) ==
  IF v.t # "num" THEN InvalidType(v, path, "number")
  ELSE Result(IF NumGeqInt(v, lo) /\ NumLeqInt(v, hi) THEN "valid" ELSE "dirty",
              (IF NumGeqInt(v, lo) THEN << >>
               ELSE <<Issue(path, "Number must be greater than or equal to " \o ToString(lo))>>)
              \o (IF NumLeqInt(v, hi) THEN << >>
                  ELSE <<Issue(path, "Number must be less than or equal to " \o ToString(hi))>>))

\* z.literal(lit) for a string literal
ZLiteral(v, path, lit) ==
  IF v.t = "str" /\ v.s = lit THEN Valid
  ELSE Aborted(path, "Invalid literal value, expected \"" \o lit \o "\"")

\* z.enum(values)
ZEnum(v, path, values) ==
  IF v.t # "str" THEN InvalidType(v, path, "enum value")
  ELSE IF \E i \in DOMAIN values : values[i] = v.s THEN Valid
  ELSE Aborted(path, "Invalid enum value, received '" \o v.s \o "'")

\* schema.optional(): undefined is accepted, anything else goes to schema
ZOptional(v, inner) == IF v.t = "undefined" THEN Valid ELSE inner

\* a.or(b): the first valid option wins; when both options abort the
\* union raises one invalid_union issue.
ZUnion(path, a, b) ==
  IF a.status = "valid" \/ b.status = "valid" THEN Valid
  ELSE IF a.status = "dirty" THEN a
  ELSE IF b.status = "dirty" THEN b
  ELSE Aborted(path, "Invalid input")

\* schema.refine(check, {message, path}): the check runs only when the
\* inner schema did not abort.
\* A refinement that runs whatever the inner schema found
RefineAlways(inner, holds, path, message) ==
  IF holds THEN inner
  ELSE Result(IF inner.status = "aborted" THEN "aborted" ELSE "dirty",
              Append(inner.issues, Issue(path, message)))

ZRefine(inner, holds, path, message) ==
  IF inner.status = "aborted" THEN inner
  ELSE IF holds THEN inner
  ELSE Result("dirty", Append(inner.issues, Issue(path, message)))

----------------------------------------------------------------------------
(* metadataSchema *)

ModelLiteral == "83aa91117c2fac3e25a3757eaa59f29ed3aeaf4dd7d3d384c673086c321e0644"
JiraPrefix == "ANTHS-"
Workflows == <<"new_codebase", "existing_codebase">>
Usecases ==
  <<"initial_development", "feature_implementation", "debugging_fixes",
    "optimization_testing">>
IssueTypes ==
  <<"missing_memory", "technical_inconsistency", "tool", "code_correctness",
    "setup", "other">>
YesNo == <<"yes", "no">>
MemoryFlags ==
  <<"memory_naturality", "context_accuracy", "code_referencing",
    "remembers_debugging_history", "maintains_coding_style",
    "remembers_environment", "avoids_referencing_irrelevant_memory",
    "avoids_storing_irrelevant_memory">>
ChoiceMin == 0
ChoiceMax == 7
CorrectnessMin == -1
CorrectnessMax == 2
NoIssueLevel == 2

\* z.object({...}) of a non-object
NotAnObject(v, path) == InvalidType(v, path, "object")

\* codebase: z.object({url: z.string().optional(), description: ...})
CodebaseSchema(v, path) ==
  IF v.t # "obj" THEN NotAnObject(v, path)
  ELSE Merge(<<
         ZOptional(Get(v, "url"), ZString(Get(v, "url"), path \o <<"url">>, << >>)),
         ZOptional(Get(v, "description"),
                   ZString(Get(v, "description"), path \o <<"description">>, << >>)) >>)

\* issue_type: z.enum([...]).or(z.literal("")).optional()
IssueTypeSchema(v, path) ==
  ZOptional(v, ZUnion(path, ZEnum(v, path, IssueTypes), ZLiteral(v, path, "")))

\* issue_comment, issue_source: z.string().or(z.literal("")).optional()
IssueTextSchema(v, path) ==
  ZOptional(v, ZUnion(path, ZString(v, path, << >>), ZLiteral(v, path, "")))

\* s && s.trim() !== "" for a value that is a string or undefined
NonBlank(v) == Truthy(v) /\ v.t = "str" /\ Trim(v.s) # ""

\* The check of a prompt entry's refine: with level_of_correctness other
\* than 2, the three issue fields are all given and not blank.
PromptRefinement(v) ==
  IF ~StrictEq(Get(v, "level_of_correctness"), Num(NoIssueLevel))
  THEN /\ NonBlank(Get(v, "issue_type"))
       /\ NonBlank(Get(v, "issue_comment"))
       /\ NonBlank(Get(v, "issue_source"))
  ELSE TRUE

PromptFields(v, path) ==
  Merge(<<
    ZString(Get(v, "hfi_id"), path \o <<"hfi_id">>, << >>),
    ZString(Get(v, "prompt"), path \o <<"prompt">>, <<MinCheck("Prompt is required")>>),
    ZNumber(Get(v, "choice"), path \o <<"choice">>, ChoiceMin, ChoiceMax),
    ZString(Get(v, "gdrive"), path \o <<"gdrive">>, <<UrlCheck("Must be a valid URL")>>),
    ZEnum(Get(v, "usecase"), path \o <<"usecase">>, Usecases),
    ZString(Get(v, "comment"), path \o <<"comment">>, <<MinCheck("Comment is required")>>),
    IssueTypeSchema(Get(v, "issue_type"), path \o <<"issue_type">>),
    IssueTextSchema(Get(v, "issue_comment"), path \o <<"issue_comment">>),
    IssueTextSchema(Get(v, "issue_source"), path \o <<"issue_source">>),
    ZNumber(Get(v, "level_of_correctness"), path \o <<"level_of_correctness">>,
            CorrectnessMin, CorrectnessMax),
    ZString(Get(v, "level_of_correctness_comment"),
            path \o <<"level_of_correctness_comment">>,
            <<MinCheck("Level of correctness comment is required")>>),
    ZString(Get(v, "memory_comment"), path \o <<"memory_comment">>,
            <<MinCheck("Memory comment is required")>>) >>)

\* One element of prompts: z.object({...}).refine(..., {path: ["issue_type"]})
PromptSchema(v, path) ==
  IF v.t # "obj" THEN NotAnObject(v, path)
  ELSE ZRefine(PromptFields(v, path), PromptRefinement(v), path \o <<"issue_type">>,
         "Issue type, comment, and source are required when level of correctness is not 2")

\* prompts: z.array(...); element i of the array has path prompts.i
PromptsSchema(v, path) ==
  IF v.t # "arr" THEN InvalidType(v, path, "array")
  ELSE Merge([i \in DOMAIN v.a |-> PromptSchema(v.a[i], path \o <<ToString(i - 1)>>)])

\* A memory schema that looks into the fields of a value that is no object
MemoryFieldsAnyway(v, path) ==
  Merge(<<IF v.t # "obj" THEN NotAnObject(v, path) ELSE Result("valid", << >>),
          ZString(Get(v, "memory_comment"), path \o <<"memory_comment">>,
                  <<MinCheck("Memory comment is required")>>)>>
        \o [i \in DOMAIN MemoryFlags |->
              ZEnum(Get(v, MemoryFlags[i]), path \o <<MemoryFlags[i]>>, YesNo)])

\* memory: z.object({memory_comment, and the eight z.enum(["yes", "no"])})
MemorySchema(v, path) ==
  IF v.t # "obj" THEN NotAnObject(v, path)
  ELSE Merge(<<ZString(Get(v, "memory_comment"), path \o <<"memory_comment">>,
                       <<MinCheck("Memory comment is required")>>)>>
             \o [i \in DOMAIN MemoryFlags |->
                   ZEnum(Get(v, MemoryFlags[i]), path \o <<MemoryFlags[i]>>, YesNo)])

\* The check of the document's refine.  It runs on a document whose fields
\* all parsed, so codebase is an object and its leaves strings or undefined.
CodebaseCheck(workflow, codebase, url, description) ==
  IF StrictEq(workflow, Str("existing_codebase"))
  THEN /\ Truthy(codebase)
       /\ url.t = "str" /\ Trim(url.s) # ""
       /\ description.t = "str" /\ Trim(description.s) # ""
  ELSE \/ ~Truthy(codebase)
       \/ /\ url.t = "undefined" \/ StrictEq(url, Str(""))
          /\ description.t = "undefined" \/ StrictEq(description, Str(""))

CodebaseRefinement(v) ==
  CodebaseCheck(Get(v, "workflow"), Get(v, "codebase"),
                Get(Get(v, "codebase"), "url"), Get(Get(v, "codebase"), "description"))

DocumentFields(v) ==
  Merge(<<
    ZString(Get(v, "uuid"), <<"uuid">>, <<MinCheck("UUID is required")>>),
    ZString(Get(v, "jira_id"), <<"jira_id">>,
            <<MinCheck("JIRA ID is required"),
              StartsWithCheck(JiraPrefix, "JIRA ID must start with 'ANTHS-'")>>),
    ZString(Get(v, "programming_language"), <<"programming_language">>,
            <<MinCheck("Programming language is required")>>),
    ZLiteral(Get(v, "model"), <<"model">>, ModelLiteral),
    ZString(Get(v, "root_gdrive"), <<"root_gdrive">>, <<UrlCheck("Must be a valid URL")>>),
    ZEnum(Get(v, "workflow"), <<"workflow">>, Workflows),
    CodebaseSchema(Get(v, "codebase"), <<"codebase">>),
    PromptsSchema(Get(v, "prompts"), <<"prompts">>),
    MemorySchema(Get(v, "memory"), <<"memory">>) >>)

\* metadataSchema.safeParse(v): the issues, in the order zod raised them;
\* success is an empty list.
metadataSchema(v) ==
  IF v.t # "obj" THEN NotAnObject(v, << >>)
  ELSE ZRefine(DocumentFields(v), CodebaseRefinement(v), <<"codebase">>,
         "For existing codebase workflow, both URL and description are required. For new codebase, both must be empty.")

----------------------------------------------------------------------------
(* validateJson *)

DigitValue(ch) == CHOOSE d \in 0..9 : ToString(d) = ch

\* The number a string of decimal digits writes
RECURSIVE DigitsToInt(_)
DigitsToInt(s) ==
  IF s = "" THEN 0
  ELSE 10 * DigitsToInt(SubSeq(s, 1, Len(s) - 1)) + DigitValue(CharAt(s, Len(s)))

\* Number.parseInt(s): leading whitespace is skipped, then an optional sign,
\* then the longest run of decimal digits; whatever follows is ignored, and
\* with no digit the result is NaN.  (The strings modelled hold no "x", so
\* the hexadecimal prefix never applies.)
\* The digits u[from..upto-1] as a number, negated for a "-" sign
DigitsValue(u, from, upto) ==
  IF upto = from THEN NaN
  ELSE IF CharAt(u, 1) = "-" THEN Num(0 - DigitsToInt(SubSeq(u, from, upto - 1)))
  ELSE Num(DigitsToInt(SubSeq(u, from, upto - 1)))

DigitsFrom(u, from) == DigitsValue(u, from, SkipChars(u, Digits, from))

SignedDigits(u) ==
  DigitsFrom(u, IF Len(u) > 0 /\ CharAt(u, 1) \in {"-", "+"} THEN 2 ELSE 1)

ParseInt(s) == SignedDigits(TrimStart(s))

\* Number.isInteger(v)
IsInteger(v) == v.t = "num" /\ ~v.half

\* `${v}` for a number
NumberText(v) == IF v.t = "nan" THEN "NaN" ELSE ToString(v.n)

Violation(field, message) == [field |-> field, message |-> message]
IndexedViolation(field, message, index) ==
  [field |-> field, message |-> message, index |-> index]

CountViolation ==
  Violation("prompt_count", "Number of prompts must be a positive whole number")
MissingPromptsViolation ==
  Violation("prompts", "Prompts array is missing or not an array")
LengthViolation(actual, expected) ==
  Violation("prompts",
            "Prompts array length (" \o ToString(actual)
              \o ") does not match expected count (" \o NumberText(expected) \o ")")
JsonViolation == Violation("json", "Invalid JSON format")
HfiOneBased(index) ==
  IndexedViolation("hfi_id", "HFI ID should match the main UUID", index + 1)
HfiViolation(index) ==
  IndexedViolation("hfi_id", "HFI ID should match the main UUID", index)

\* The promptCount check of validateJson
CountErrors(count, expected) ==
  IF \/ count = ""
     \/ expected.t = "nan"
     \/ (expected.t = "num" /\ expected.n <= 0)
     \/ ~IsInteger(expected)
  THEN <<CountViolation>> ELSE << >>

\* A length check that only objects to prompts beyond the expected count
LengthAtMost(prompts, expected) ==
  IF ~Truthy(prompts) \/ prompts.t # "arr" THEN <<MissingPromptsViolation>>
  ELSE IF expected.t = "num" /\ Len(prompts.a) > expected.n
  THEN <<LengthViolation(Len(prompts.a), expected)>>
  ELSE << >>

\* The prompts length check of validateJson, for a document that is not null
LengthErrors(prompts, expected) ==
  IF ~Truthy(prompts) \/ prompts.t # "arr" THEN <<MissingPromptsViolation>>
  ELSE IF ~StrictEq(Num(Len(prompts.a)), expected)
  THEN <<LengthViolation(Len(prompts.a), expected)>>
  ELSE << >>

PromptsErrors(doc, expected) == LengthErrors(Get(doc, "prompts"), expected)

\* field.match(/prompts\.(\d+)/)?.[1] : the digits after the first
\* "prompts." that a digit follows, or "" when there is none
RECURSIVE MatchPromptIndex(_, _)
MatchPromptIndex(field, from) ==
  IF from + 8 > Len(field) THEN ""
  ELSE IF SubSeq(field, from, from + 7) = "prompts." /\ CharAt(field, from + 8) \in Digits
  THEN SubSeq(field, from + 8, SkipChars(field, Digits, from + 8) - 1)
  ELSE MatchPromptIndex(field, from + 1)

\* One zod issue as a ValidationError: the field is the joined path, the
\* index is parsed out of the field when it lies under prompts.<n>
ErrorOf(field, message, promptIndex) ==
  IF promptIndex # ""
  THEN IndexedViolation(field, message, ParseInt(promptIndex).n)
  ELSE Violation(field, message)

ErrorAt(field, message) == ErrorOf(field, message, MatchPromptIndex(field, 1))

IssueToError(issue) == ErrorAt(Join(issue.path), issue.message)

\* result.error.issues.forEach(...) when !result.success
IssuesToErrors(result) ==
  IF result.status = "valid" THEN << >>
  ELSE [i \in DOMAIN result.issues |-> IssueToError(result.issues[i])]

SchemaErrors(doc) == IssuesToErrors(metadataSchema(doc))

\* data.prompts.forEach(...) of the HFI check from element i on: the hfi_id
\* violations pushed, and whether reading prompt.hfi_id threw (the loop
\* stops there).
RECURSIVE HfiLoop(_, _, _, _)
HfiLoop(prompts, uuid, i, pushed) ==
  IF i > Len(prompts) THEN [threw |-> FALSE, pushed |-> pushed]
  ELSE IF Throws(prompts[i]) THEN [threw |-> TRUE, pushed |-> pushed]
  ELSE HfiLoop(prompts, uuid, i + 1,
               IF ~StrictEq(Get(prompts[i], "hfi_id"), uuid)
               THEN Append(pushed, HfiViolation(i - 1)) ELSE pushed)

\* An HFI check that does not look at the uuid first
HfiUnguarded(prompts, uuid) ==
  IF Truthy(prompts) /\ prompts.t = "arr"
  THEN HfiLoop(prompts.a, uuid, 1, << >>)
  ELSE [threw |-> FALSE, pushed |-> << >>]

HfiErrors(prompts, uuid) ==
  IF Truthy(prompts) /\ prompts.t = "arr" /\ Truthy(uuid)
  THEN HfiLoop(prompts.a, uuid, 1, << >>)
  ELSE [threw |-> FALSE, pushed |-> << >>]

HfiCheck(doc) == HfiErrors(Get(doc, "prompts"), Get(doc, "uuid"))

\* The validations counted after a remembered one
MaxSince == 2

\* No validation has been remembered
NoRun == [t |-> "none"]

\* A validation of a text and a count with the result it stored, and the
\* number of validations since (counted up to MaxSince)
RunOf(text, count, run) ==
  [t |-> "run", text |-> text, count |-> count, errors |-> run.errors,
   isValid |-> run.isValid, since |-> 0]

\* The remembered validation after one more validation
Aged(run) ==
  IF run.t = "run" /\ run.since < MaxSince THEN [run EXCEPT !.since = @ + 1]
  ELSE run

\* A validity flag that stays false once a validation has failed
StickyOutcome(errs, valid, doc, threw) ==
  [errors |-> errs, isValid |-> IF isValid = "false" THEN "false" ELSE valid,
   data |-> doc, caught |-> threw]

Outcome(errs, valid, doc, threw) ==
  [errors |-> errs, isValid |-> valid, data |-> doc, caught |-> threw]

\* A catch block that sets the flag and adds no violation
CatchSilent(pushed, doc) == Outcome(pushed, "false", doc, TRUE)

\* The catch block: the violations pushed so far stay, "json" is added
Catch(pushed, doc) == Outcome(Append(pushed, JsonViolation), "false", doc, TRUE)

\* The end of the try block: the HFI check threw, or the violations are
\* stored and the document is valid when there are none
Finish(doc, validationErrors, threw) ==
  IF threw THEN Catch(validationErrors, doc)
  ELSE Outcome(validationErrors, IF validationErrors = << >> THEN "true" ELSE "false",
               doc, FALSE)

\* The rules after the count check, which pushed countErrors; reading
\* data.prompts of null throws
RulesAfterCount(doc, expected, countErrors, hfi) ==
  IF Throws(doc) THEN Catch(countErrors, doc)
  ELSE Finish(doc,
              countErrors \o PromptsErrors(doc, expected) \o SchemaErrors(doc)
                \o hfi.pushed,
              hfi.threw)

Rules(doc, count, expected) ==
  RulesAfterCount(doc, expected, CountErrors(count, expected), HfiCheck(doc))

TryBlock(parsed, count) ==
  IF ~parsed.ok THEN Catch(<< >>, Undefined)
  ELSE Rules(parsed.val, count, ParseInt(count))

\* One run of validateJson on the text and the expected count: what it
\* stores in errors and isValid, the document it parsed (undefined when
\* JSON.parse threw) and whether the catch block ran.
RunValidation(text, count) == TryBlock(JsonParse(text), count)

----------------------------------------------------------------------------
(* The inputs the checks range over *)

MaxPrompts == 3
MaxDefects == 2
MaxCountLen == 3

Uuid == "u-1"

\* A prompt entry that passes every rule: with level of correctness 2 and
\* no issue fields, or with level 1 and the three issue fields
PromptEntry(perfect) ==
  Obj([hfi_id |-> Str(Uuid), prompt |-> Str(" p "), choice |-> Num(0),
       gdrive |-> Str("https://g/1"), usecase |-> Str("debugging_fixes"),
       comment |-> Str("c"),
       issue_type |-> IF perfect THEN Undefined ELSE Str("tool"),
       issue_comment |-> IF perfect THEN Undefined ELSE Str("ic"),
       issue_source |-> IF perfect THEN Undefined ELSE Str("is"),
       level_of_correctness |-> IF perfect THEN Num(2) ELSE Num(1),
       level_of_correctness_comment |-> Str("lc"),
       memory_comment |-> Str("mc")])

MemoryBlock ==
  Obj([memory_comment |-> Str("m"), memory_naturality |-> Str("yes"),
       context_accuracy |-> Str("no"), code_referencing |-> Str("yes"),
       remembers_debugging_history |-> Str("yes"),
       maintains_coding_style |-> Str("no"), remembers_environment |-> Str("yes"),
       avoids_referencing_irrelevant_memory |-> Str("yes"),
       avoids_storing_irrelevant_memory |-> Str("no")])

\* A document that passes every rule, with m prompt entries (perfect and
\* imperfect ones in turn)
BaseDocument(workflow, m) ==
  Obj([uuid |-> Str(Uuid), jira_id |-> Str("ANTHS-7"),
       programming_language |-> Str("ts"), model |-> Str(ModelLiteral),
       root_gdrive |-> Str("https://d/r"), workflow |-> Str(workflow),
       codebase |-> IF workflow = "existing_codebase"
                    THEN Obj([url |-> Str("https://c"), description |-> Str("d")])
                    ELSE Obj([url |-> Str(""), description |-> Str("")]),
       prompts |-> Arr([i \in 1..m |-> PromptEntry(i % 2 = 1)]),
       memory |-> MemoryBlock])

\* The base documents, each with the position of the prompt entry that the
\* defects of an entry go to: the first or the last
Bases ==
  UNION {{[doc |-> BaseDocument("new_codebase", m), at |-> at] : at \in {1, m}} :
           m \in 0..MaxPrompts}
  \cup {[doc |-> BaseDocument("existing_codebase", 1), at |-> 1]}

Defect(where, key, val) == [where |-> where, key |-> key, val |-> val]

\* Departures from a base document that are combined with one another
CoreDefects ==
  << Defect("doc", "uuid", Str("")),
     Defect("doc", "jira_id", Str("ANTH-7")),
     Defect("doc", "programming_language", Str("")),
     Defect("doc", "model", Str("gpt")),
     Defect("doc", "root_gdrive", Str("drive")),
     Defect("doc", "workflow", Str("bogus")),
     Defect("doc", "workflow", Str("existing_codebase")),
     Defect("doc", "prompts", Undefined),
     Defect("doc", "memory", Undefined),
     Defect("codebase", "url", Str("")),
     Defect("codebase", "url", Str("x")),
     Defect("codebase", "description", Str("")),
     Defect("codebase", "description", Str("x")),
     Defect("entry", "", Null),
     Defect("prompt", "hfi_id", Str("u-2")),
     Defect("prompt", "usecase", Str("bogus")),
     Defect("prompt", "level_of_correctness", Num(0)),
     Defect("prompt", "level_of_correctness", Num(2)),
     Defect("prompt", "issue_comment", Str("ic")) >>

\* Departures that are applied alone
SingleDefects ==
  << Defect("doc", "uuid", Undefined),
     Defect("doc", "uuid", Num(5)),
     Defect("doc", "jira_id", Str("")),
     Defect("doc", "jira_id", Str("ANTHS-")),
     Defect("doc", "model", Undefined),
     Defect("doc", "root_gdrive", Str("")),
     Defect("doc", "root_gdrive", Str("http://")),
     Defect("doc", "root_gdrive", Str("mailto:a")),
     Defect("doc", "workflow", Undefined),
     Defect("doc", "codebase", Undefined),
     Defect("doc", "prompts", Str("none")),
     Defect("doc", "prompts", Null),
     Defect("doc", "memory", Null),
     Defect("codebase", "url", Undefined),
     Defect("codebase", "url", Str("  ")),
     Defect("codebase", "url", Num(1)),
     Defect("codebase", "description", Undefined),
     Defect("memory", "memory_comment", Str("")),
     Defect("memory", "memory_naturality", Undefined),
     Defect("memory", "context_accuracy", Str("")),
     Defect("memory", "code_referencing", Str("Yes")),
     Defect("memory", "remembers_environment", Str("maybe")),
     Defect("entry", "", Num(5)),
     Defect("entry", "", Arr(<< >>)),
     Defect("prompt", "hfi_id", Undefined),
     Defect("prompt", "hfi_id", Str("")),
     Defect("prompt", "prompt", Str("")),
     Defect("prompt", "choice", Num(-1)),
     Defect("prompt", "choice", Num(7)),
     Defect("prompt", "choice", Num(8)),
     Defect("prompt", "choice", NumHalf(2)),
     Defect("prompt", "choice", Str("3")),
     Defect("prompt", "choice", Undefined),
     Defect("prompt", "gdrive", Str("")),
     Defect("prompt", "gdrive", Str("httpx")),
     Defect("prompt", "comment", Str("")),
     Defect("prompt", "level_of_correctness", Num(-2)),
     Defect("prompt", "level_of_correctness", Num(-1)),
     Defect("prompt", "level_of_correctness", Num(3)),
     Defect("prompt", "level_of_correctness", Undefined),
     Defect("prompt", "level_of_correctness_comment", Str("")),
     Defect("prompt", "memory_comment", Str("")),
     Defect("prompt", "issue_type", Str("bogus")),
     Defect("prompt", "issue_type", Str("tool")),
     Defect("prompt", "issue_type", Str("")),
     Defect("prompt", "issue_type", Undefined),
     Defect("prompt", "issue_comment", Str(" ")),
     Defect("prompt", "issue_source", Str("is")),
     Defect("prompt", "issue_source", Undefined) >>

\* v.key := val, for an object v; other values are left as they are
With(v, key, val) == IF v.t = "obj" THEN Obj(Put(v.o, key, val)) ELSE v

\* The document with the prompt entry at position at changed by the defect
ApplyToEntry(doc, prompts, defect, at) ==
  IF prompts.t # "arr" \/ at \notin 1..Len(prompts.a) THEN doc
  ELSE With(doc, "prompts",
            Arr([prompts.a EXCEPT ![at] = IF defect.where = "entry" THEN defect.val
                                          ELSE With(@, defect.key, defect.val)]))

\* The document with one defect applied; a defect of a prompt entry goes
\* to the entry at position at, when the document has one
Apply(doc, defect, at) ==
  CASE defect.where = "doc" -> With(doc, defect.key, defect.val)
    [] defect.where \in {"codebase", "memory"} ->
         With(doc, defect.where, With(Get(doc, defect.where), defect.key, defect.val))
    [] OTHER -> ApplyToEntry(doc, Get(doc, "prompts"), defect, at)

Min(set) == CHOOSE x \in set : \A y \in set : x <= y

RECURSIVE ApplyAll(_, _, _, _)
ApplyAll(doc, defects, picked, at) ==
  IF picked = {} THEN doc
  ELSE ApplyAll(Apply(doc, defects[Min(picked)], at), defects, picked \ {Min(picked)}, at)

\* The documents: a base document with one single defect, or with up to
\* MaxDefects core defects
Documents ==
  {ApplyAll(b.doc, CoreDefects, picked, b.at) :
     b \in Bases,
     picked \in {x \in SUBSET DOMAIN CoreDefects : Cardinality(x) <= MaxDefects}}
  \cup {Apply(b.doc, SingleDefects[i], b.at) : b \in Bases, i \in DOMAIN SingleDefects}

\* Values that parse but are no document
OtherRoots ==
  {Null, Num(5), NumHalf(0), Str("doc"), Bool(TRUE), Arr(<< >>), Arr(<<Null>>),
   Obj(<< >>)}

\* Texts that are not JSON: nothing, a cut-off document, a trailing comma,
\* a missing colon, an unquoted word, two values
MalformedFrom(text) ==
  { << >>,
    SubSeq(text, 1, Len(text) - 1),
    SubSeq(text, 1, Len(text) - 1) \o <<Tok(","), Tok("}")>>,
    <<Tok("{"), StrTok("uuid"), StrTok(Uuid), Tok("}")>>,
    <<Tok("word")>>,
    <<Tok("["), Tok(","), Tok("]")>>,
    <<Tok("{"), Tok("}"), Tok("{"), Tok("}")>>,
    text \o <<Tok("}")>> }

Malformed == MalformedFrom(Stringify(BaseDocument("new_codebase", 1)))

CountChars == {"0", "1", "2", ".", "-", "e"}

\* The strings over CountChars of length n
RECURSIVE CountStrings(_)
CountStrings(n) ==
  IF n = 0 THEN {""}
  ELSE {s \o ch : s \in CountStrings(n - 1), ch \in CountChars}

\* The end of the fraction that starts at b, b itself without a "."
FractionEnd(s, b) ==
  IF b <= Len(s) /\ CharAt(s, b) = "." THEN SkipChars(s, Digits, b + 1) ELSE b

\* An exponent from c to the end of s, or nothing
ExponentOk(s, c, d) ==
  \/ c = Len(s) + 1
  \/ /\ CharAt(s, c) = "e"
     /\ d <= Len(s)
     /\ SkipChars(s, Digits, d) = Len(s) + 1

ExponentDigits(s, c) ==
  IF c + 1 <= Len(s) /\ CharAt(s, c + 1) = "-" THEN c + 2 ELSE c + 1

FloatFrom(s, a, b, c) ==
  /\ IF c = b THEN b > a ELSE c > b + 1
  /\ ExponentOk(s, c, ExponentDigits(s, c))

FloatAfterSign(s, a, b) == FloatFrom(s, a, b, FractionEnd(s, b))

\* An input of type "number" holds the empty string or a valid
\* floating-point number
NumberInputValue(s, a) ==
  s = "" \/ FloatAfterSign(s, a, SkipChars(s, Digits, a))

Counts ==
  {s \in UNION {CountStrings(n) : n \in 0..MaxCountLen} \cup {"2.5"} :
     NumberInputValue(s, IF StartsWith(s, "-") THEN 2 ELSE 1)}

\* The expected count that matches a document
LengthText(prompts) == IF prompts.t = "arr" THEN ToString(Len(prompts.a)) ELSE "1"

MatchingCount(doc) == LengthText(Get(doc, "prompts"))

\* Documents for which every expected count is tried
CountedDocuments ==
  {BaseDocument("new_codebase", m) : m \in 0..MaxPrompts}
  \cup {With(BaseDocument("new_codebase", 1), "prompts", Undefined), Null}

\* The forms the generator is submitted with.  The form renders no input
\* for hfi_id, so an entry holds the "" of defaultValues and of append;
\* onSubmit is tried on other values as well.  The uuid is given or not.
FormHfiIds == {"", "u-1", "u-2"}
FormUuids == {"", "u-1", "u-2"}

FormEntries(prompts, hfis) ==
  Arr([i \in DOMAIN hfis |-> With(prompts[i], "hfi_id", Str(hfis[i]))])

FormOf(doc, uuid, hfis) ==
  With(With(doc, "uuid", Str(uuid)), "prompts",
       FormEntries(Get(doc, "prompts").a, hfis))

Forms ==
  {FormOf(BaseDocument(workflow, Len(hfis)), uuid, hfis) :
     workflow \in {"new_codebase", "existing_codebase"},
     uuid \in FormUuids,
     hfis \in UNION {[1..m -> FormHfiIds] : m \in 1..MaxPrompts}}

----------------------------------------------------------------------------
(* The generator *)

\* defaultValues of useForm
DefaultValues ==
  Obj([uuid |-> Str(""), jira_id |-> Str("ANTHS-"), programming_language |-> Str(""),
       model |-> Str(ModelLiteral), root_gdrive |-> Str(""),
       workflow |-> Str("new_codebase"),
       codebase |-> Obj([url |-> Str(""), description |-> Str("")]),
       prompts |->
         Arr(<<Obj([hfi_id |-> Str(""), prompt |-> Str(""), choice |-> Num(0),
                    gdrive |-> Str(""), usecase |-> Str("initial_development"),
                    comment |-> Str(""), level_of_correctness |-> Num(2),
                    level_of_correctness_comment |-> Str(""),
                    memory_comment |-> Str("")])>>),
       memory |->
         Obj([memory_comment |-> Str(""), memory_naturality |-> Str("yes"),
              context_accuracy |-> Str("yes"), code_referencing |-> Str("yes"),
              remembers_debugging_history |-> Str("yes"),
              maintains_coding_style |-> Str("yes"),
              remembers_environment |-> Str("yes"),
              avoids_referencing_irrelevant_memory |-> Str("yes"),
              avoids_storing_irrelevant_memory |-> Str("yes")])])

\* A submission that leaves the hfi_id of the form
KeepHfiId(prompt, uuid) == prompt

\* {...prompt, hfi_id: data.uuid}
ForceHfiId(prompt, uuid) == With(prompt, "hfi_id", uuid)

\* data.prompts.map(...)
ProcessedPrompts(prompts, uuid) ==
  Arr([i \in DOMAIN prompts |-> ForceHfiId(prompts[i], uuid)])

\* processedData of onSubmit
ProcessedData(values) ==
  With(values, "prompts",
       ProcessedPrompts(Get(values, "prompts").a, Get(values, "uuid")))

\* The entry that the "Add Prompt" button appends
NewPrompt ==
  Obj([hfi_id |-> Str(""), prompt |-> Str(""), choice |-> Num(0),
       gdrive |-> Str(""), usecase |-> Str("initial_development"),
       comment |-> Str(""), level_of_correctness |-> Num(2),
       level_of_correctness_comment |-> Str(""), memory_comment |-> Str("")])

\* A remove button on every entry, whatever their number
RemoveAlways(count) == TRUE

\* fields.length > 1 && <Button ... onClick={() => remove(index)}>
RemoveShown(count) == count > 1

\* remove(index) of useFieldArray: the entries without the one at index
RemoveAt(prompts, index) ==
  [i \in 1..(Len(prompts) - 1) |-> IF i < index THEN prompts[i] ELSE prompts[i + 1]]

\* The forms as the inputs of the generator fill them: the entries hold the
\* hfi_id "" of defaultValues and of append
TypedForms ==
  {FormOf(BaseDocument(workflow, m), uuid, [i \in 1..m |-> ""]) :
     workflow \in {"new_codebase", "existing_codebase"},
     uuid \in FormUuids,
     m \in 1..MaxPrompts}

----------------------------------------------------------------------------
Init ==
  /\ jsonInput = << >>
  /\ promptCount = ""
  /\ errors = << >>
  /\ isValid = "null"
  /\ data = Undefined
  /\ caught = FALSE
  /\ earlier = NoRun
  /\ form = DefaultValues
  /\ generatedJson = << >>

\* The component with a text and an expected count typed in, before the
\* first validation
InitValidate ==
  /\ \/ \E doc \in Documents \cup OtherRoots :
          /\ jsonInput = Stringify(doc)
          /\ promptCount = MatchingCount(doc)
     \/ \E doc \in CountedDocuments, count \in Counts :
          /\ jsonInput = Stringify(doc)
          /\ promptCount = count
     \/ \E text \in Malformed, count \in {"", "1", "-1"} :
          /\ jsonInput = text
          /\ promptCount = count
  /\ errors = << >>
  /\ isValid = "null"
  /\ data = Undefined
  /\ caught = FALSE
  /\ earlier = NoRun
  /\ form = DefaultValues
  /\ generatedJson = << >>

\* The generator as it is mounted, or with its inputs filled in, before
\* any entry is added or removed
InitRoundTrip ==
  /\ form \in TypedForms \cup {DefaultValues}
  /\ generatedJson = << >>
  /\ jsonInput = << >>
  /\ promptCount = ""
  /\ errors = << >>
  /\ isValid = "null"
  /\ data = Undefined
  /\ caught = FALSE
  /\ earlier = NoRun

\* The generator with a form filled in, before the submission
InitGenerator ==
  /\ form \in Forms
  /\ generatedJson = << >>
  /\ jsonInput = << >>
  /\ promptCount = ""
  /\ errors = << >>
  /\ isValid = "null"
  /\ data = Undefined
  /\ caught = FALSE
  /\ earlier = NoRun

\* setErrors and setIsValid of a run (and what the run parsed); the first
\* run is remembered, a later one is remembered in place of the earlier
\* one, or not
Store(run) ==
  /\ errors' = run.errors
  /\ isValid' = run.isValid
  /\ data' = run.data
  /\ caught' = run.caught
  /\ earlier' \in (IF earlier = NoRun THEN {} ELSE {Aged(earlier)})
                    \cup {RunOf(jsonInput, promptCount, run)}

\* onClick of "Validate JSON"
validateJson ==
  /\ Store(RunValidation(jsonInput, promptCount))
  /\ UNCHANGED <<jsonInput, promptCount, form, generatedJson>>

\* form.handleSubmit(onSubmit): with the zod resolver, onSubmit runs when
\* the form's values pass metadataSchema, and stores the generated JSON
onSubmit ==
  /\ metadataSchema(form).status = "valid"
  /\ generatedJson' = Stringify(ProcessedData(form))
  /\ UNCHANGED <<jsonInput, promptCount, errors, isValid, data, caught, earlier, form>>

\* onClick of the "Add Prompt" button
append ==
  /\ Len(Get(form, "prompts").a) < MaxPrompts
  /\ form' = With(form, "prompts", Arr(Append(Get(form, "prompts").a, NewPrompt)))
  /\ UNCHANGED <<jsonInput, promptCount, errors, isValid, data, caught, earlier,
                 generatedJson>>

\* onClick of the remove button of the entry at index
remove ==
  \E index \in DOMAIN Get(form, "prompts").a :
    /\ RemoveShown(Len(Get(form, "prompts").a))
    /\ form' = With(form, "prompts", Arr(RemoveAt(Get(form, "prompts").a, index)))
    /\ UNCHANGED <<jsonInput, promptCount, errors, isValid, data, caught, earlier,
                   generatedJson>>

\* The texts and expected counts typed into the checker's two inputs
TypedTexts ==
  {Stringify(BaseDocument("new_codebase", 1)),
   Stringify(BaseDocument("existing_codebase", 1)),
   Stringify(With(BaseDocument("new_codebase", 2), "model", Str("gpt"))),
   Stringify(With(BaseDocument("new_codebase", 2), "prompts", Arr(<<Null>>))),
   Stringify(Null),
   <<Tok("{"), StrTok("uuid"), StrTok(Uuid), Tok("}")>>}

TypedCounts == {"", "1", "2", "2.5"}

\* onChange of the "JSON Data" textarea
setJsonInput ==
  /\ \E text \in TypedTexts : jsonInput' = text
  /\ UNCHANGED <<promptCount, errors, isValid, data, caught, earlier, form,
                 generatedJson>>

\* onChange of the "Number of Prompts" input
setPromptCount ==
  /\ \E count \in TypedCounts : promptCount' = count
  /\ UNCHANGED <<jsonInput, errors, isValid, data, caught, earlier, form,
                 generatedJson>>

Next == setJsonInput \/ setPromptCount \/ validateJson

Spec == Init /\ [][Next]_vars

\* validateJson on every input of the families of InitValidate
SpecValidate == InitValidate /\ [][validateJson]_vars

\* onSubmit on every form of InitGenerator
SpecGenerator == InitGenerator /\ [][onSubmit]_vars

\* The generator's entries added and removed, and its form submitted
NextRoundTrip == append \/ remove \/ onSubmit

SpecRoundTrip == InitRoundTrip /\ [][NextRoundTrip]_vars

----------------------------------------------------------------------------
(* What the properties below read from a state *)

\* validateJson has run
Ran == isValid # "null"

\* validateJson has run and JSON.parse returned a value
ParsedText == Ran /\ data.t # "undefined"

\* validateJson has run on a text that holds a document (a JSON object)
IsDocument == Ran /\ data.t = "obj"

Reported(field) == \E i \in DOMAIN errors : errors[i].field = field

TimesReported(field) == Cardinality({i \in DOMAIN errors : errors[i].field = field})

\* A string field that is absent or ""
Empty(v) == v.t = "undefined" \/ (v.t = "str" /\ v.s = "")

\* A string field that holds text
Filled(v) == v.t = "str" /\ v.s # ""

\* A field of the data model's type string, given or not
Textual(v) == v.t \in {"str", "undefined"}

\* sub occurs in s
Contains(s, sub) ==
  \E i \in 1..(Len(s) - Len(sub) + 1) : SubSeq(s, i, i + Len(sub) - 1) = sub

\* The prompt entries of the document
Entries == IF Get(data, "prompts").t = "arr" THEN Get(data, "prompts").a ELSE << >>

\* The field of a violation of prompt entry i (counted from 1)
EntryField(i, key) == "prompts." \o ToString(i - 1) \o "." \o key

----------------------------------------------------------------------------
(* C1 *)

\* C1: a text that fails to parse yields, whatever the expected count,
\* exactly the one violation {field: "json", message: "Invalid JSON
\* format"} and validity false; no other rule adds a violation.
C1_ParseFailureIsolated ==
  (Ran /\ jsonInput \in Malformed) =>
     /\ errors = <<[field |-> "json", message |-> "Invalid JSON format"]>>
     /\ isValid = "false"

\* A cut-off document was validated with an empty expected count, which on
\* a parsed text would raise prompt_count
C1_Witness ==
  /\ Ran
  /\ jsonInput \in Malformed
  /\ Len(jsonInput) > 50
  /\ promptCount = ""
  /\ Len(errors) = 1

----------------------------------------------------------------------------
(* C2 *)

\* The field rules of the data model, read strictly where the data model
\* names variants: a URL must be a valid URL, a non-empty string holds more
\* than white space.
NonEmpty(v) == v.t = "str" /\ Trim(v.s) # ""

WholeIn(v, lo, hi) == v.t = "num" /\ ~v.half /\ v.n \in lo..hi

OneOf(v, values) == v.t = "str" /\ \E i \in DOMAIN values : values[i] = v.s

RuleEntry(e, uuid) ==
  /\ e.t = "obj"
  /\ StrictEq(Get(e, "hfi_id"), uuid)
  /\ Filled(Get(e, "prompt"))
  /\ WholeIn(Get(e, "choice"), 0, 7)
  /\ Get(e, "gdrive").t = "str" /\ IsUrl(Get(e, "gdrive").s)
  /\ OneOf(Get(e, "usecase"), Usecases)
  /\ NonEmpty(Get(e, "comment"))
  /\ WholeIn(Get(e, "level_of_correctness"), -1, 2)
  /\ NonEmpty(Get(e, "level_of_correctness_comment"))
  /\ NonEmpty(Get(e, "memory_comment"))
  /\ \/ \A key \in {"issue_type", "issue_comment", "issue_source"} : Empty(Get(e, key))
     \/ \A key \in {"issue_type", "issue_comment", "issue_source"} : NonEmpty(Get(e, key))
  /\ Empty(Get(e, "issue_type")) \/ OneOf(Get(e, "issue_type"), IssueTypes)
  /\ Get(e, "level_of_correctness") # Num(2) =>
       \A key \in {"issue_type", "issue_comment", "issue_source"} : NonEmpty(Get(e, key))

RuleMemory(m) ==
  /\ m.t = "obj"
  /\ NonEmpty(Get(m, "memory_comment"))
  /\ \A i \in DOMAIN MemoryFlags :
       Get(m, MemoryFlags[i]).t = "undefined" \/ OneOf(Get(m, MemoryFlags[i]), YesNo)

RuleCodebase(workflow, codebase) ==
  /\ codebase.t = "obj"
  /\ workflow = Str("new_codebase") =>
       Empty(Get(codebase, "url")) /\ Empty(Get(codebase, "description"))
  /\ workflow = Str("existing_codebase") =>
       NonEmpty(Get(codebase, "url")) /\ NonEmpty(Get(codebase, "description"))

SatisfiesDataModel(d) ==
  /\ d.t = "obj"
  /\ NonEmpty(Get(d, "uuid"))
  /\ NonEmpty(Get(d, "jira_id")) /\ StartsWith(Get(d, "jira_id").s, "ANTHS-")
  /\ NonEmpty(Get(d, "programming_language"))
  /\ Get(d, "model") = Str(ModelLiteral)
  /\ Get(d, "root_gdrive").t = "str" /\ IsUrl(Get(d, "root_gdrive").s)
  /\ OneOf(Get(d, "workflow"), Workflows)
  /\ RuleCodebase(Get(d, "workflow"), Get(d, "codebase"))
  /\ Get(d, "prompts").t = "arr"
  /\ \A i \in DOMAIN Get(d, "prompts").a : RuleEntry(Get(d, "prompts").a[i], Get(d, "uuid"))
  /\ RuleMemory(Get(d, "memory"))

\* The expected count is the decimal numeral of prompts.length, a positive
\* integer
CountMatches ==
  /\ Entries # << >>
  /\ promptCount = ToString(Len(Entries))

\* C2: a document that satisfies every field rule of the data model,
\* validated with an expected count equal to prompts.length, yields an
\* empty violation list and validity true.
C2_FullValid ==
  (IsDocument /\ SatisfiesDataModel(data) /\ CountMatches) =>
     errors = << >> /\ isValid = "true"

----------------------------------------------------------------------------
(* C3 *)

ModelWrong == Get(data, "model") # Str(ModelLiteral)

ExistingWithEmptyCodebase ==
  /\ Get(data, "workflow") = Str("existing_codebase")
  /\ Empty(Get(Get(data, "codebase"), "url"))
  /\ Empty(Get(Get(data, "codebase"), "description"))

CodebaseReported ==
  Reported("codebase") \/ Reported("codebase.url") \/ Reported("codebase.description")

UsecaseWrong(e) == e.t = "obj" /\ ~OneOf(Get(e, "usecase"), Usecases)

IssueFieldsMissing(e) ==
  /\ e.t = "obj"
  /\ WholeIn(Get(e, "level_of_correctness"), -1, 1)
  /\ \A key \in {"issue_type", "issue_comment", "issue_source"} : Empty(Get(e, key))

IssueFieldsReported(i) ==
  \E key \in {"issue_type", "issue_comment", "issue_source"} : Reported(EntryField(i, key))

\* C3: a document invalid in several independent dimensions gets a
\* violation for every one of them: a wrong model together with an
\* existing_codebase workflow and an empty codebase reports both the model
\* and the codebase; an invalid usecase together with a level of
\* correctness other than 2 and no issue fields reports both the usecase
\* and the issue fields.
C3_NoShortCircuit ==
  IsDocument =>
    /\ (ModelWrong /\ ExistingWithEmptyCodebase) => (Reported("model") /\ CodebaseReported)
    /\ \A i \in DOMAIN Entries :
         (UsecaseWrong(Entries[i]) /\ IssueFieldsMissing(Entries[i])) =>
            (Reported(EntryField(i, "usecase")) /\ IssueFieldsReported(i))

----------------------------------------------------------------------------
(* C4 *)

\* C4: for a text that parses (the value null, a root that is no object, a
\* document without prompts or with a null prompt entry included), no rule
\* throws and no violation has the field "json".
C4_OnlyParseFailureShortCircuits ==
  ParsedText => (~caught /\ ~Reported("json"))

----------------------------------------------------------------------------
(* C5 *)

AllZero(digits) == \A i \in 1..Len(digits) : CharAt(digits, i) = "0"

\* The decimal number a string writes: a sign, digits, a fraction, an
\* exponent; ok when the whole string is such a number.
Reading(s) ==
  LET neg == StartsWith(s, "-")
      a == IF neg THEN 2 ELSE 1
      b == SkipChars(s, Digits, a)
      hasDot == b <= Len(s) /\ CharAt(s, b) = "."
      c == IF hasDot THEN SkipChars(s, Digits, b + 1) ELSE b
      hasExp == c <= Len(s) /\ CharAt(s, c) = "e"
      expNeg == hasExp /\ c + 1 <= Len(s) /\ CharAt(s, c + 1) = "-"
      d == IF hasExp THEN (IF expNeg THEN c + 2 ELSE c + 1) ELSE c
      f == IF hasExp THEN SkipChars(s, Digits, d) ELSE c
      fraction == IF hasDot THEN SubSeq(s, b + 1, c - 1) ELSE ""
      digits == SubSeq(s, a, b - 1) \o fraction
      exponent == IF ~hasExp THEN 0
                  ELSE IF expNeg THEN 0 - DigitsToInt(SubSeq(s, d, f - 1))
                  ELSE DigitsToInt(SubSeq(s, d, f - 1))
      scale == exponent - Len(fraction)
  IN [ok |-> digits # "" /\ (hasExp => f > d) /\ f = Len(s) + 1,
      positive |-> ~neg /\ ~AllZero(digits),
      whole |-> \/ scale >= 0
                \/ AllZero(digits)
                \/ /\ Len(digits) + scale >= 1
                   /\ AllZero(SubSeq(digits, Len(digits) + scale + 1, Len(digits)))]

\* The expected count is empty, no number, no whole number, or <= 0
BadCount(s) ==
  \/ s = ""
  \/ ~Reading(s).ok
  \/ ~Reading(s).whole
  \/ ~Reading(s).positive

\* C5: on a parsed text, a violation with field "prompt_count" is emitted
\* if and only if the expected count is empty, not a number, not a whole
\* number (such as "2.5"), or less than or equal to 0.
C5_CountRule ==
  ParsedText => (Reported("prompt_count") <=> BadCount(promptCount))

----------------------------------------------------------------------------
(* C6 *)

\* The expected count is the decimal numeral of a positive integer
PositiveNumeral(s) ==
  /\ s # ""
  /\ \A i \in 1..Len(s) : CharAt(s, i) \in Digits
  /\ ~AllZero(s)

Named(n) == "(" \o ToString(n) \o ")"

\* A "prompts" violation whose message names the actual length m and the
\* expected count n
LengthReported(m, n) ==
  \E i \in DOMAIN errors :
    /\ errors[i].field = "prompts"
    /\ Contains(errors[i].message, "length " \o Named(m))
    /\ Contains(errors[i].message, "expected count " \o Named(n))

\* C6: for a document and an expected count that is a positive integer n:
\* when prompts is a sequence of length m # n, a violation on field
\* "prompts" names both m and n; when m = n no violation on field
\* "prompts" is emitted; when prompts is missing or not a sequence a
\* violation on field "prompts" is emitted.
C6_LengthRule ==
  (IsDocument /\ PositiveNumeral(promptCount)) =>
     IF Get(data, "prompts").t = "arr"
     THEN IF Len(Entries) # DigitsToInt(promptCount)
          THEN LengthReported(Len(Entries), DigitsToInt(promptCount))
          ELSE ~Reported("prompts")
     ELSE Reported("prompts")

\* Three prompts were validated against an expected count of "2"
C6_Witness ==
  /\ IsDocument
  /\ promptCount = "2"
  /\ Len(Entries) = 3
  /\ LengthReported(3, 2)

----------------------------------------------------------------------------
(* C7 *)

\* C7: for a document whose scalar fields are strings or absent, a
\* violation for uuid is emitted iff uuid is empty, for jira_id iff it is
\* empty or does not begin with "ANTHS-", for programming_language iff it
\* is empty, for model iff it differs from the fixed constant, for
\* root_gdrive iff it is empty or no valid URL, each whatever the other
\* fields hold.
C7_ScalarRules ==
  IsDocument =>
    /\ Textual(Get(data, "uuid")) =>
         (Reported("uuid") <=> Empty(Get(data, "uuid")))
    /\ Textual(Get(data, "jira_id")) =>
         (Reported("jira_id") <=>
            \/ Empty(Get(data, "jira_id"))
            \/ SubSeq(Get(data, "jira_id").s, 1, 6) # "ANTHS-")
    /\ Textual(Get(data, "programming_language")) =>
         (Reported("programming_language") <=> Empty(Get(data, "programming_language")))
    /\ Reported("model") <=>
         Get(data, "model") #
           Str("83aa91117c2fac3e25a3757eaa59f29ed3aeaf4dd7d3d384c673086c321e0644")
    /\ Textual(Get(data, "root_gdrive")) =>
         (Reported("root_gdrive") <=>
            \/ Empty(Get(data, "root_gdrive"))
            \/ ~IsUrl(Get(data, "root_gdrive").s))

\* Two scalar rules failed on one document and both were reported, a third
\* held and was not
C7_Witness ==
  /\ IsDocument
  /\ Get(data, "model") = Str("gpt")
  /\ Get(data, "jira_id") = Str("ANTH-7")
  /\ Filled(Get(data, "uuid"))
  /\ Reported("model") /\ Reported("jira_id") /\ ~Reported("uuid")

----------------------------------------------------------------------------
(* C8 *)

\* A codebase leaf that is absent, empty or blank
MissingLeaf(key) ==
  \/ Empty(Get(Get(data, "codebase"), key))
  \/ ~NonEmpty(Get(Get(data, "codebase"), key))

\* Every violation is about the codebase
OtherwiseValid ==
  \A i \in DOMAIN errors :
    errors[i].field \in {"codebase", "codebase.url", "codebase.description"}

\* C8: in an otherwise valid document with workflow "existing_codebase",
\* a violation on "codebase.url" is emitted iff the url is missing, one on
\* "codebase.description" iff the description is missing, and no combined
\* violation on "codebase".
C8_ExistingPerLeaf ==
  (/\ IsDocument
   /\ Get(data, "workflow") = Str("existing_codebase")
   /\ Get(data, "codebase").t = "obj"
   /\ Textual(Get(Get(data, "codebase"), "url"))
   /\ Textual(Get(Get(data, "codebase"), "description"))
   /\ OtherwiseValid) =>
     /\ Reported("codebase.url") <=> MissingLeaf("url")
     /\ Reported("codebase.description") <=> MissingLeaf("description")
     /\ ~Reported("codebase")

----------------------------------------------------------------------------
(* C9 *)

\* C9: with workflow "new_codebase" and codebase leaves that are strings
\* or absent: when a leaf is non-empty exactly one violation on "codebase"
\* is emitted and none per leaf; when both are empty or absent no codebase
\* violation is emitted.
C9_NewCombined ==
  (/\ IsDocument
   /\ Get(data, "workflow") = Str("new_codebase")
   /\ Get(data, "codebase").t = "obj"
   /\ Textual(Get(Get(data, "codebase"), "url"))
   /\ Textual(Get(Get(data, "codebase"), "description"))) =>
     /\ ~Reported("codebase.url") /\ ~Reported("codebase.description")
     /\ TimesReported("codebase") =
          IF Filled(Get(Get(data, "codebase"), "url"))
               \/ Filled(Get(Get(data, "codebase"), "description"))
          THEN 1 ELSE 0

----------------------------------------------------------------------------
(* C10 *)

\* The violation of the cross-check of workflow and codebase
CrossCheckReported ==
  \E i \in DOMAIN errors :
    /\ errors[i].field \in {"codebase", "codebase.url", "codebase.description"}
    /\ Contains(errors[i].message, "codebase workflow")

WorkflowKnown ==
  Get(data, "workflow") \in {Str("new_codebase"), Str("existing_codebase")}

\* C10: for a document whose workflow is neither "new_codebase" nor
\* "existing_codebase", or absent, a violation on field "workflow" is
\* emitted and none of the cross-check, whatever the codebase holds.
C10_UnknownWorkflow ==
  (IsDocument /\ ~WorkflowKnown) => (Reported("workflow") /\ ~CrossCheckReported)

\* An unknown workflow came with a codebase url, which neither workflow's
\* cross-check accepts together with an empty description
C10_Witness ==
  /\ IsDocument
  /\ ~WorkflowKnown
  /\ Filled(Get(Get(data, "codebase"), "url"))
  /\ Empty(Get(Get(data, "codebase"), "description"))
  /\ Reported("workflow")

----------------------------------------------------------------------------
(* C11 *)

\* A violation {field, index} is in the list
ReportedAt(field, index) ==
  \E k \in DOMAIN errors :
    /\ errors[k].field = field
    /\ "index" \in DOMAIN errors[k]
    /\ errors[k].index = index

----------------------------------------------------------------------------
(* C12 *)

\* C12: for every prompt entry, a violation on the entry's choice, tagged
\* with the entry's index, is emitted exactly when choice is not an
\* integer in [0, 7]; 0 and 7 yield none, -1 and 8 yield one.
C12_ChoiceRange ==
  IsDocument =>
    \A i \in DOMAIN Entries :
      Entries[i].t = "obj" =>
        (ReportedAt(EntryField(i, "choice"), i - 1) <=>
           ~WholeIn(Get(Entries[i], "choice"), 0, 7))

----------------------------------------------------------------------------
(* C13 *)

IssueFieldsEmpty(e) ==
  \A key \in {"issue_type", "issue_comment", "issue_source"} : Empty(Get(e, key))

LevelIs(e, levels) ==
  Get(e, "level_of_correctness").t = "num"
    /\ ~Get(e, "level_of_correctness").half
    /\ Get(e, "level_of_correctness").n \in levels

\* C13: for every prompt entry, a level of correctness of -1 or 2 yields
\* no violation on level_of_correctness and one of -2 or 3 yields one; an
\* entry without issue fields yields no issue-field violation at level 2
\* and yields one at the levels -1, 0 and 1.
C13_LevelRule ==
  IsDocument =>
    \A i \in DOMAIN Entries :
      Entries[i].t = "obj" =>
        /\ LevelIs(Entries[i], {-1, 2}) => ~Reported(EntryField(i, "level_of_correctness"))
        /\ LevelIs(Entries[i], {-2, 3}) => Reported(EntryField(i, "level_of_correctness"))
        /\ (LevelIs(Entries[i], {2}) /\ IssueFieldsEmpty(Entries[i])) =>
             ~IssueFieldsReported(i)
        /\ (LevelIs(Entries[i], {-1, 0, 1}) /\ IssueFieldsEmpty(Entries[i])) =>
             IssueFieldsReported(i)

----------------------------------------------------------------------------
(* C14 *)

IssueKeys == {"issue_type", "issue_comment", "issue_source"}

\* The issue fields of an entry are strings or absent
IssueFieldsTextual(e) == \A key \in IssueKeys : Textual(Get(e, key))

\* C14: for every prompt entry, whatever its level of correctness, if one
\* of issue_type, issue_comment, issue_source is non-empty then a
\* violation is emitted for each of the three that is empty or absent, and
\* a non-empty issue_type outside the six enumerated values yields a
\* violation.
C14_AllOrNothing ==
  IsDocument =>
    \A i \in DOMAIN Entries :
      (Entries[i].t = "obj" /\ IssueFieldsTextual(Entries[i])) =>
        /\ (\E key \in IssueKeys : Filled(Get(Entries[i], key))) =>
             \A key \in IssueKeys :
               Empty(Get(Entries[i], key)) => Reported(EntryField(i, key))
        /\ (Filled(Get(Entries[i], "issue_type"))
              /\ ~OneOf(Get(Entries[i], "issue_type"), IssueTypes)) =>
             Reported(EntryField(i, "issue_type"))

----------------------------------------------------------------------------
(* C15 *)

\* C15: for every prompt entry with a level of correctness other than 2,
\* each of issue_type, issue_comment, issue_source that is empty or absent
\* has a violation attributed to its own field, and issue_comment and
\* issue_source have none when they are non-empty.
C15_PerFieldMandatory ==
  IsDocument =>
    \A i \in DOMAIN Entries :
      (/\ Entries[i].t = "obj"
       /\ IssueFieldsTextual(Entries[i])
       /\ LevelIs(Entries[i], {-1, 0, 1})) =>
         /\ \A key \in IssueKeys :
              Empty(Get(Entries[i], key)) => Reported(EntryField(i, key))
         /\ \A key \in {"issue_comment", "issue_source"} :
              Filled(Get(Entries[i], key)) => ~Reported(EntryField(i, key))

----------------------------------------------------------------------------
(* C16 *)

\* Violations of the fields of the memory block
MemoryFieldsReported ==
  \E k \in DOMAIN errors :
    /\ Len(errors[k].field) >= 7
    /\ SubSeq(errors[k].field, 1, 7) = "memory."

\* C16: for a document without a memory object, exactly one violation has
\* the field "memory" and none has a field of the memory block.
C16_MemoryAbsent ==
  (IsDocument /\ Get(data, "memory").t \in {"undefined", "null"}) =>
     TimesReported("memory") = 1 /\ ~MemoryFieldsReported

\* A document without memory and with a wrong model was validated: both
\* are reported, the memory once
C16_Witness ==
  /\ IsDocument
  /\ Get(data, "memory").t = "undefined"
  /\ Get(data, "model") = Str("gpt")
  /\ TimesReported("memory") = 1
  /\ Reported("model")

----------------------------------------------------------------------------
(* C17 *)

MemoryField(key) == "memory." \o key

\* C17: for a document with a memory block, a memory flag that is a string
\* or absent yields a violation if and only if it is non-empty and neither
\* "yes" nor "no"; memory.memory_comment yields a violation if and only if
\* it is empty.
C17_OptionalFlags ==
  (IsDocument /\ Get(data, "memory").t = "obj") =>
     /\ \A i \in DOMAIN MemoryFlags :
          Textual(Get(Get(data, "memory"), MemoryFlags[i])) =>
            (Reported(MemoryField(MemoryFlags[i])) <=>
               /\ Filled(Get(Get(data, "memory"), MemoryFlags[i]))
               /\ Get(Get(data, "memory"), MemoryFlags[i]) \notin {Str("yes"), Str("no")})
     /\ Textual(Get(Get(data, "memory"), "memory_comment")) =>
          (Reported("memory.memory_comment") <=>
             Empty(Get(Get(data, "memory"), "memory_comment")))

----------------------------------------------------------------------------
(* C18 *)

HasPrefix(s, prefix) == Len(s) >= Len(prefix) /\ SubSeq(s, 1, Len(prefix)) = prefix

\* The level a violation is attributed to: 1 the document, 2 a prompt
\* entry, 3 the memory block
Level(e) ==
  IF "index" \in DOMAIN e \/ e.field = "hfi_id" \/ HasPrefix(e.field, "prompts.") THEN 2
  ELSE IF e.field = "memory" \/ HasPrefix(e.field, "memory.") THEN 3
  ELSE 1

\* C18: in the violation list of a parsed document on which no rule threw,
\* document-level violations precede prompt-entry violations, prompt-entry
\* violations (the hfi_id ones included) come in increasing entry index,
\* and memory violations follow every prompt-entry violation.
C18_Order ==
  (IsDocument /\ ~caught) =>
    \A j, k \in DOMAIN errors :
      j < k =>
        /\ Level(errors[j]) <= Level(errors[k])
        /\ ("index" \in DOMAIN errors[j] /\ "index" \in DOMAIN errors[k]) =>
             errors[j].index <= errors[k].index

----------------------------------------------------------------------------
(* C19 *)

\* The remembered validation was of the text and the count now typed in
SameInputs ==
  earlier.t = "run" /\ earlier.text = jsonInput /\ earlier.count = promptCount

----------------------------------------------------------------------------
(* C20 *)

Submitted == generatedJson # << >>

\* The document that the generated JSON text denotes
Generated == JsonParse(generatedJson).val

\* C20: after a submission, the generated JSON has the prompt entries of
\* the form, each with hfi_id equal to the form's uuid and every other
\* field as in the form, and every other field of the document as in the
\* form.
C20_ForcedHfiId ==
  Submitted =>
    /\ JsonParse(generatedJson).ok
    /\ Generated.t = "obj"
    /\ \A key \in (DOMAIN Generated.o \cup DOMAIN form.o) \ {"prompts"} :
         Get(Generated, key) = Get(form, key)
    /\ Get(Generated, "prompts").t = "arr"
    /\ Len(Get(Generated, "prompts").a) = Len(Get(form, "prompts").a)
    /\ \A i \in DOMAIN Get(form, "prompts").a :
         /\ Get(Get(Generated, "prompts").a[i], "hfi_id") = Get(form, "uuid")
         /\ \A key \in (DOMAIN Get(Generated, "prompts").a[i].o
                          \cup DOMAIN Get(form, "prompts").a[i].o) \ {"hfi_id"} :
              Get(Get(Generated, "prompts").a[i], key)
                = Get(Get(form, "prompts").a[i], key)

\* A form of three prompt entries, each with the hfi_id "" of a new entry,
\* was submitted with a uuid
C20_Witness ==
  /\ Submitted
  /\ Len(Get(form, "prompts").a) = 3
  /\ Get(form, "uuid") = Str("u-1")
  /\ \A i \in 1..3 : Get(Get(form, "prompts").a[i], "hfi_id") = Str("")
  /\ \A i \in 1..3 : Get(Get(Generated, "prompts").a[i], "hfi_id") = Str("u-1")

----------------------------------------------------------------------------
(* C21 *)

\* C21: for a document whose prompts is a sequence and an expected count
\* that writes no number, the bad count is reported once, as the
\* "prompt_count" violation, and no violation on field "prompts" is
\* emitted.
C21_BadCountOnce ==
  (/\ IsDocument
   /\ Get(data, "prompts").t = "arr"
   /\ ~Reading(promptCount).ok) =>
     TimesReported("prompt_count") = 1 /\ ~Reported("prompts")

----------------------------------------------------------------------------
(* C22 *)

\* validateJson has been invoked
Invoked == earlier # NoRun

\* C22: after any edits and validations, the validity flag is null exactly
\* when validateJson was never invoked, and otherwise it is true if and
\* only if the stored violation list is empty.
C22_ValidityFlag ==
  /\ isValid = "null" <=> ~Invoked
  /\ Invoked => (isValid \in {"true", "false"} /\ (isValid = "true" <=> errors = << >>))

\* A validation took the exception path, and the text was edited after it
C22_Witness ==
  /\ Invoked
  /\ caught
  /\ isValid = "false"
  /\ errors # << >>
  /\ JsonParse(jsonInput).ok

----------------------------------------------------------------------------
(* C23 *)

\* C23: for a document whose uuid is missing or the empty string, no
\* violation with field "hfi_id" is emitted, whatever hfi_id the prompt
\* entries hold.
C23_HfiNeedsUuid ==
  (IsDocument /\ Empty(Get(data, "uuid"))) => ~Reported("hfi_id")

\* A document with an empty uuid and a prompt entry with an hfi_id was
\* validated: the uuid is reported, no hfi_id is
C23_Witness ==
  /\ IsDocument
  /\ Get(data, "uuid") = Str("")
  /\ Len(Entries) = 2
  /\ Get(Entries[2], "hfi_id") = Str("u-2")
  /\ Get(Entries[1], "hfi_id") = Str("u-1")
  /\ Reported("uuid")
  /\ ~Reported("hfi_id")

----------------------------------------------------------------------------
(* C24 *)

\* The violations that validateJson lists for the generated text, with the
\* number of generated entries as the expected count
RoundTrip ==
  RunValidation(generatedJson, LengthText(Get(Generated, "prompts")))

\* C24: the generator's prompt list has at least one entry after any
\* sequence of add and remove actions, and after a submission (the form
\* passed metadataSchema) validateJson on the generated JSON text, with the
\* number of generated entries as the expected count, lists no violation
\* and finds the text valid.
C24_RoundTrip ==
  /\ Get(form, "prompts").t = "arr"
  /\ Len(Get(form, "prompts").a) >= 1
  /\ Submitted =>
       /\ Get(Generated, "prompts").t = "arr"
       /\ Len(Get(Generated, "prompts").a) >= 1
       /\ RoundTrip.errors = << >>
       /\ RoundTrip.isValid = "true"
       /\ ~RoundTrip.caught

\* A form submitted after its first entry was removed (the first entry of a
\* typed form has no issue fields), with an entry appended since; the
\* generated text of two entries passes the checker
C24_Witness ==
  /\ Submitted
  /\ Len(Get(Generated, "prompts").a) = 2
  /\ Get(Get(Generated, "prompts").a[1], "issue_type") = Str("tool")
  /\ Get(Get(Generated, "prompts").a[1], "hfi_id") = Str("u-2")
  /\ Get(Generated, "workflow") = Str("existing_codebase")
  /\ Len(Get(form, "prompts").a) = 3
  /\ Get(form, "prompts").a[3] = NewPrompt
  /\ RoundTrip.errors = << >>

=============================================================================
